---- MODULE Spec2Model ----
(***************************************************************************)
(* Model of the Microsoft Family Safety integration's refresh coordinator  *)
(* (custom_components/microsoft_family_safety/coordinator.py).             *)
(*                                                                         *)
(* One FamilySafetyDataUpdateCoordinator instance is modelled.  Its public *)
(* coroutines are split at their await points; every piece between two     *)
(* awaits is one atomic action (cooperative scheduling).  The cloud        *)
(* service and the pyfamilysafety client are the environment: the outcome  *)
(* of every remote call is chosen from a small set.                        *)
(***************************************************************************)
EXTENDS Integers, Sequences, FiniteSets, Bags, TLC

\* ----------------------------------------------------------------- bounds
\* number of _async_update_data invocations that may be in flight at once
MaxInFlight == 2

\* Coordinators the host creates in one run (one per async_setup_entry).
MaxCoordinators == 3

\* --------------------------------------------------- remote (cloud) objects
EmptyMap == [x \in {} |-> 0]

Dev(id, os, ms, blk) ==
    [device_id |-> id, os_name |-> os, today_time_used |-> ms, blocked |-> blk]

Acc(id, ms, avg, devs, devsNone) ==
    [user_id |-> id, today_screentime_usage |-> ms,
     average_screentime_usage |-> avg,
     devices |-> devs, devices_is_none |-> devsNone,
     applications |-> << >>]

\* The account collections the cloud may hold (what a fetch returns).
World1 == << Acc("a1", 90000, 59000,
                 << Dev("d1", "Windows 11", 90000, TRUE),
                    Dev("d2", "Android", 59000, FALSE) >>, FALSE) >>
World3 == << Acc("a2", 0, 0,
                 << Dev("d2", "Android", 59000, FALSE),
                    Dev("d1", "Xbox", 0, FALSE) >>, FALSE) >>
World4 == << Acc("a1", 90000, 59000,
                 << Dev("d1", "Windows 11", 90000, TRUE) >>, FALSE),
             Acc("a2", 0, 0, << >>, TRUE) >>

RemoteWorlds == {World1, World3, World4}

AccountIds == {"a1", "a2"}

\* api.accounts of a client object: None or a list
NoneAccounts == [isNone |-> TRUE, list |-> << >>]
SomeAccounts(l) == [isNone |-> FALSE, list |-> l]

\* ------------------------------------------------------------------- state
VARIABLES
    api,                \* self.api: None, or a client and its .accounts
    _accounts,          \* self._accounts: account id -> Account handle
    _devices,           \* self._devices: device id -> Device handle
    _is_retrying_auth,  \* self._is_retrying_auth
    data,               \* self.data: the snapshot served to readers
    last_update_success,\* self.last_update_success (kept by the host)
    tasks,              \* bag of in-flight _async_update_data invocations
    mut,                \* the mutation coroutine
    cleaned,            \* "no": async_cleanup has not run; "yes": it has,
                        \* and no refresh has started since; "resumed": it
                        \* has, and a refresh has started since
    ret,                \* what the call completed by the last step
                        \* returned or raised ("none": no call completed),
                        \* or the remote call a mutation has just issued
    seen,               \* what the last read of the cache returned
    hass                \* the host: hass.data[DOMAIN], the coordinators of
                        \* the config entries, the registered services

vars == << api, _accounts, _devices, _is_retrying_auth, data,
           last_update_success, tasks, mut, cleaned, ret, seen, hass >>

\* ------------------------------------------------------ snapshot normalizer
Put(f, k, v) == [x \in DOMAIN f \cup {k} |-> IF x = k THEN v ELSE f[x]]

DevIds(dv) == {dv[i].device_id : i \in 1..Len(dv)}

LastIdx(dv, k) ==
    CHOOSE i \in 1..Len(dv) :
        /\ dv[i].device_id = k
        /\ \A j \in (i+1)..Len(dv) : dv[j].device_id # k

DeviceDataOwnId(device, account_id) ==
    [device_id |-> device.device_id,
     os_name |-> device.os_name,
     today_time_used |-> device.today_time_used,
     blocked |-> device.blocked,
     account_id |-> device.device_id]

\* coordinator.py:120-131, the dictionary stored for one device
DeviceData(device, account_id) ==
    [device_id |-> device.device_id,
     os_name |-> device.os_name,
     today_time_used |-> device.today_time_used,
     blocked |-> device.blocked,
     account_id |-> account_id]

\* coordinator.py:101-112 with the "devices" list filled by 133
AccountData(account, devs) ==
    [user_id |-> account.user_id,
     today_screentime_usage |-> account.today_screentime_usage,
     average_screentime_usage |-> account.average_screentime_usage,
     devices |-> devs,
     applications |-> [i \in 1..Len(account.applications) |->
                         [app_id |-> account.applications[i].app_id,
                          app_name |-> account.applications[i].name,
                          blocked |-> account.applications[i].blocked]]]

DevicesStartPublished(account_id) ==
    IF ~data.isNone /\ account_id \in DOMAIN data.accounts
    THEN data.accounts[account_id].devices
    ELSE << >>

\* coordinator.py:110: the "devices" list of an account's dictionary starts
\* as a new empty list in every refresh.
DevicesStart(account_id) == << >>

WithoutHandle(tbl, account_id) == tbl

\* coordinator.py:115: self._accounts[account_id] = account
WithHandle(tbl, account_id) == Put(tbl, account_id, account_id)

PrependedIds(dv) == [i \in 1..Len(dv) |-> dv[Len(dv) + 1 - i].device_id]

\* coordinator.py:118-133: each device id is appended to the account's
\* "devices" list as the loop meets it.
AppendedIds(dv) == [i \in 1..Len(dv) |-> dv[i].device_id]

\* One iteration of the loop at coordinator.py:99-144.  st carries the two
\* local dictionaries and the two handle tables; ok = FALSE once an
\* exception left the loop (iterating account.devices = None).
StepAccount(st, account) ==
    LET aid == account.user_id
        A1 == WithHandle(st.A, aid)
    IN  IF account.devices_is_none
        THEN [ok |-> FALSE,
              accounts_data |-> Put(st.accounts_data, aid,
                                    AccountData(account, << >>)),
              devices_data |-> st.devices_data,
              A |-> A1, D |-> st.D]
        ELSE
        LET dv == account.devices
            ids == DevIds(dv)
        IN  [ok |-> TRUE,
             accounts_data |->
                 Put(st.accounts_data, aid,
                     AccountData(account,
                                 DevicesStart(aid) \o AppendedIds(dv))),
             devices_data |->
                 [k \in DOMAIN st.devices_data \cup ids |->
                     IF k \in ids THEN DeviceData(dv[LastIdx(dv, k)], aid)
                     ELSE st.devices_data[k]],
             A |-> A1,
             D |-> [k \in DOMAIN st.D \cup ids |-> k]]

RECURSIVE NormalizeFrom(_, _, _)
NormalizeFrom(accs, i, st) ==
    IF i > Len(accs) \/ ~st.ok THEN st
    ELSE NormalizeFrom(accs, i + 1, StepAccount(st, accs[i]))

ReusedDicts(published) ==
    [accounts_data |-> published.accounts,
     devices_data |-> published.devices]

\* coordinator.py:92-93: the two dictionaries a refresh fills are new
\* objects; the dictionaries of the published snapshot are not touched.
LocalDicts(published) ==
    [accounts_data |-> EmptyMap, devices_data |-> EmptyMap]

\* coordinator.py:92-149: the loop run over api.accounts, starting from
\* empty local dictionaries and the handle tables as they are.
Normalize(accs, A, D) ==
    NormalizeFrom(accs, 1,
                  [ok |-> TRUE,
                   accounts_data |-> LocalDicts(data).accounts_data,
                   devices_data |-> LocalDicts(data).devices_data,
                   A |-> A, D |-> D])


\* -------------------------------------------------------------- state values
NoData == [isNone |-> TRUE, accounts |-> EmptyMap, devices |-> EmptyMap]

\* self.api is None
NoApi == [isNone |-> TRUE, accounts |-> NoneAccounts]
Client(acc) == [isNone |-> FALSE, accounts |-> acc]

\* An in-flight refresh: the await it is suspended at ("setup":
\* FamilySafety.create, "update": api.update()), whether the client whose
\* update() it awaits is still the object in self.api, whether a
\* mutation's async_request_refresh runs (and awaits) it.
Task(pc, onCurrent, forced) ==
    [pc |-> pc, onCurrent |-> onCurrent, forced |-> forced]

InFlight == BagCardinality(tasks)

Running(pc) == {k \in BagToSet(tasks) : k.pc = pc}

Without(k) == tasks (-) SetToBag({k})

\* The mutation coroutine: pc "idle" (not running), "remote" (awaiting the
\* remote call), "refresh_wait" (awaiting the refresh its request runs),
\* "refresh_ready" (async_request_refresh is returning); ran = a refresh
\* run by the request has completed.
IdleMut == [pc |-> "idle", ran |-> FALSE]

\* A value a reader can get: None, or an object.
None == [isNone |-> TRUE]
Some(v) == [isNone |-> FALSE, value |-> v]

\* No read has been made.
NotRead == [account |-> None, platforms |-> {}]

\* --------------------------------------------------------------- the host
\* The config entries of the integration, and its four services.
Entries == {"e1", "e2"}

Services ==
    {"block_device", "unblock_device", "approve_request", "deny_request"}

\* What the snapshot of a coordinator of an entry can hold: the ids of its
\* accounts.
AccountSets == {{"a1"}, {"a1", "a2"}}

\* An entry: pc "not_loaded", "first_refresh" (async_setup_entry awaits the
\* first refresh of the coordinator it made), "forwarding" (it awaits
\* async_forward_entry_setups), "loaded", "unloading" (async_unload_entry
\* awaits async_unload_platforms); reloading = the call runs inside
\* async_reload_entry; coordinator = the one the running setup made.
IdleEntry == [pc |-> "not_loaded", reloading |-> FALSE, coordinator |-> 0]

NoCall == [op |-> "none", entry |-> "none", result |-> "none"]

NoServiceCall == [service |-> "none", account_id |-> "none", targets |-> << >>]

\* Nothing is set up: hass.data[DOMAIN] is empty, no coordinator exists
\* and no service is registered.
HassInit ==
    [registry |-> << >>,
     coordinators |-> << >>,
     services |-> [s \in Services |-> 0],
     entries |-> [e \in Entries |-> IdleEntry],
     done |-> NoCall,
     called |-> NoServiceCall]

\* coordinator.py:33-45
Init ==
    /\ api = NoApi
    /\ _accounts = EmptyMap
    /\ _devices = EmptyMap
    /\ _is_retrying_auth = FALSE
    /\ data = NoData
    /\ tasks = EmptyBag
    /\ mut = IdleMut
    /\ last_update_success = TRUE
    /\ cleaned = "no"
    /\ ret = "none"
    /\ seen = NotRead
    /\ hass = HassInit

\* ------------------------------------------------------ _async_update_data
\* coordinator.py:67-73: the invocation runs up to its first await, which
\* is FamilySafety.create when there is no client, else api.update().
StartedTask(a, forced) ==
    IF a.isNone THEN Task("setup", FALSE, forced)
    ELSE Task("update", TRUE, forced)

\* self.api is rebound (or unbound by async_cleanup): the updates still
\* in flight run on objects self.api no longer names.
DetachedTask(k) == [k EXCEPT !.onCurrent = FALSE]

\* A refresh starts on a coordinator: what `cleaned` records afterwards.
Resumed(c) == IF c = "no" THEN "no" ELSE "resumed"

\* A mutation awaiting the refresh it requested is resumed when that
\* refresh completes.
Wake(m, k) ==
    IF k.forced THEN [pc |-> "refresh_ready", ran |-> TRUE] ELSE m

\* The host calls _async_update_data (polling timer or a deferred
\* refresh request).
RefreshStart ==
    /\ InFlight < MaxInFlight
    /\ tasks' = tasks (+) SetToBag({StartedTask(api, FALSE)})
    /\ cleaned' = Resumed(cleaned)
    /\ ret' = "none"
    /\ UNCHANGED << api, _accounts, _devices, _is_retrying_auth, data,
                    last_update_success, mut,
                    seen, hass >>

\* coordinator.py:54-60 then 70-73: FamilySafety.create returned a client
\* (which has fetched its accounts); it is stored in self.api and
\* api.update() is awaited on it.
SetupDone(k, fetched) ==
    /\ k \in Running("setup")
    /\ api' = Client(fetched)
    /\ tasks' = BagOfAll(DetachedTask, Without(k))
                   (+) SetToBag({[k EXCEPT !.pc = "update",
                                           !.onCurrent = TRUE]})
    /\ ret' = "none"
    /\ UNCHANGED << _accounts, _devices, _is_retrying_auth, data,
                    last_update_success, mut, cleaned,
                    seen, hass >>

\* What FamilySafety.create can raise: it signs in and fetches the accounts
\* over the network.
SetupFailures == {"http_auth", "http_other", "other_exc"}

\* coordinator.py:61-63: FamilySafety.create raised; whatever the cause,
\* ConfigEntryAuthFailed leaves _async_update_data (the call is outside the
\* try of line 70).
SetupFail(k, cause) ==
    /\ k \in Running("setup")
    /\ cause \in SetupFailures
    /\ tasks' = Without(k)
    /\ mut' = Wake(mut, k)
    /\ last_update_success' = FALSE
    /\ ret' = "ConfigEntryAuthFailed(ERROR_AUTH_FAILED)"
    /\ UNCHANGED << api, _accounts, _devices, _is_retrying_auth, data,
                    cleaned,
                    seen, hass >>

\* What api.update() can do.
UpdateOutcomes ==
    {"ok", "none", "typeerr_none_keep", "typeerr_none_null", "typeerr_other",
     "http_auth", "http_other", "other_exc"}

\* An update and, when it succeeds, the collection it read from the cloud.
Fetches ==
    ({"ok"} \X RemoteWorlds) \cup ((UpdateOutcomes \ {"ok"}) \X {<< >>})

RaisedByUpdateAnyTypeError(out) ==
    out \in {"typeerr_none_keep", "typeerr_none_null", "typeerr_other",
             "http_auth", "http_other", "other_exc"}

\* The exceptions of api.update() that leave the inner try (74-84).
RaisedByUpdate(out) ==
    out \in {"typeerr_other", "http_auth", "http_other", "other_exc"}

\* The .accounts attribute of the client api.update() ran on, afterwards.
AfterUpdate(old, out, world) ==
    CASE out = "ok" -> SomeAccounts(world)
      [] out \in {"none", "typeerr_none_null"} -> NoneAccounts
      [] OTHER -> old

\* coordinator.py:151-158: what an authentication HttpException raises.
AuthRaise(flag) ==
    IF ~flag THEN "ConfigEntryAuthFailed(ERROR_TOKEN_EXPIRED)"
    ELSE "UpdateFailed(Authentication failed)"

\* coordinator.py:151-161: the exception that leaves _async_update_data.
Raises(cause, flag) ==
    CASE cause = "http_auth" -> AuthRaise(flag)
      [] cause = "http_other" -> "UpdateFailed(Error communicating with API)"
      [] OTHER -> "UpdateFailed(Unexpected error)"

\* The exceptions of a failed refresh.
AuthRequired ==
    {"ConfigEntryAuthFailed(ERROR_AUTH_FAILED)",
     "ConfigEntryAuthFailed(ERROR_TOKEN_EXPIRED)"}

UpdateFailures ==
    {"UpdateFailed(Authentication failed)",
     "UpdateFailed(Error communicating with API)",
     "UpdateFailed(Unexpected error)"}

\* coordinator.py:146-149: the dictionary returned on success.
Snapshot(st) ==
    [isNone |-> FALSE, accounts |-> st.accounts_data,
     devices |-> st.devices_data]

RaisedDataPartial(old, st) == Snapshot(st)

\* coordinator.py:151-161: every except branch raises, nothing is
\* returned, so self.data keeps the value it had.
RaisedData(old, st) == old

\* coordinator.py:73-84: the object self.api names when the api.update()
\* awaited by refresh k has finished with `out` and the TypeError handler
\* has run.
ApiAfterUpdate(k, out, world) ==
    IF k.onCurrent
    THEN Client(AfterUpdate(api.accounts, out, world))
    ELSE api

\* coordinator.py:73-161: api.update() finished with `out` (a successful
\* fetch having read `world` from the cloud); the rest of the coroutine
\* runs without another await, and the host stores a returned dictionary
\* in self.data.
UpdateDone(k, out, world) ==
    /\ k \in Running("update")
    /\ LET \* the object in self.api after the update
           a1 == ApiAfterUpdate(k, out, world)
           raised == RaisedByUpdate(out)
           \* self.api was set to None meanwhile: AttributeError at 81/87
           apiGone == a1.isNone
           \* 81-82 and 87-89: a None collection becomes []
           a2 == IF ~raised /\ ~apiGone /\ a1.accounts.isNone
                 THEN Client(SomeAccounts(<< >>))
                 ELSE a1
           st == IF raised \/ apiGone
                 THEN [ok |-> FALSE, accounts_data |-> EmptyMap,
                       devices_data |-> EmptyMap,
                       A |-> _accounts, D |-> _devices]
                 ELSE Normalize(a2.accounts.list, _accounts, _devices)
           cause == IF raised THEN out
                    ELSE IF apiGone THEN "attr_error"
                    ELSE IF st.ok THEN "ok" ELSE "loop_error"
           result == IF cause = "ok" THEN "snapshot"
                     ELSE Raises(cause, _is_retrying_auth)
       IN
         /\ api' = a2
         /\ _accounts' = st.A
         /\ _devices' = st.D
         /\ _is_retrying_auth' =
                IF cause = "http_auth" /\ ~_is_retrying_auth
                THEN TRUE ELSE _is_retrying_auth
         /\ data' = IF cause = "ok" THEN Snapshot(st) ELSE RaisedData(data, st)
         /\ last_update_success' = (cause = "ok")
         /\ ret' = result
    /\ tasks' = Without(k)
    /\ mut' = Wake(mut, k)
    /\ UNCHANGED << cleaned,
                    seen, hass >>

\* ------------------------------------------------------------ async_cleanup
CleanupResultNeedsClient(a) ==
    IF a.isNone THEN "AttributeError" ELSE "cleanup_done"

\* coordinator.py:283-287: the three statements of async_cleanup raise
\* nothing, whatever self.api is; the coroutine returns None.
CleanupResult(a) == "cleanup_done"

\* coordinator.py:283-287
Cleanup ==
    /\ _accounts' = EmptyMap
    /\ _devices' = EmptyMap
    /\ api' = NoApi
    /\ cleaned' = "yes"
    /\ tasks' = BagOfAll(DetachedTask, tasks)
    /\ ret' = CleanupResult(api)
    /\ UNCHANGED << _is_retrying_auth, data, last_update_success, mut,
                    seen, hass >>

\* ---------------------------------------------------------------- mutations
\* The ids of the pending requests a caller can name.
RequestIds == {"r1", "r2"}

\* The calls a caller can make: block/unblock name an account,
\* approve/deny a request id.
MutationCalls ==
    ({"block", "unblock"} \X AccountIds) \cup ({"approve", "deny"} \X RequestIds)

\* coordinator.py:182, 207, 227, 239: the remote call a mutation awaits.
RemoteCall(op, arg) ==
    CASE op \in {"block", "unblock"} -> "override_device"
      [] op = "approve" /\ arg = "r1" -> "approve_pending_request(r1)"
      [] op = "approve" /\ arg = "r2" -> "approve_pending_request(r2)"
      [] op = "deny" /\ arg = "r1" -> "deny_pending_request(r1)"
      [] op = "deny" /\ arg = "r2" -> "deny_pending_request(r2)"

AccountFoundAlways(tbl, account_id) == TRUE

\* coordinator.py:170 and 199: `account_id in self._accounts`
AccountFound(tbl, account_id) == account_id \in DOMAIN tbl

ApiInitializedAlways(a) == TRUE

\* coordinator.py:223 and 235: `self.api is None`
ApiInitialized(a) == ~a.isNone

\* The entry check of the four mutation coroutines.
Admitted(op, account_id) ==
    IF op \in {"block", "unblock"} THEN AccountFound(_accounts, account_id)
    ELSE ApiInitialized(api)

RefreshRequestsNever(remoteOk) == 0

RefreshRequestsAlways(remoteOk) == 1

\* coordinator.py:182-195, 206-219, 227-231, 239-243: the number of
\* async_request_refresh calls made after the remote call; an exception
\* of the remote call skips the request and is re-raised.
RefreshRequests(remoteOk) == IF remoteOk THEN 1 ELSE 0

\* async_block_platform / async_unblock_platform / async_approve_request /
\* async_deny_request are called: the entry check runs, then the remote
\* call (override_device, approve_pending_request, deny_pending_request)
\* is awaited.
MutStart(op, arg) ==
    /\ mut.pc = "idle"
    /\ mut' = IF Admitted(op, arg)
              THEN [IdleMut EXCEPT !.pc = "remote"]
              ELSE IdleMut
    /\ ret' = IF Admitted(op, arg) THEN RemoteCall(op, arg) ELSE "ValueError"
    /\ UNCHANGED << api, _accounts, _devices, _is_retrying_auth, data,
                    last_update_success, tasks, cleaned,
                    seen, hass >>

\* The remote call of the mutation raised: the except clause (193-195)
\* logs and re-raises; the refreshes requested on that path (none) start.
MutRemoteFail ==
    /\ mut.pc = "remote"
    /\ mut' = IdleMut
    /\ ret' = "RemoteError"
    /\ tasks' = IF RefreshRequests(FALSE) = 0 THEN tasks
                ELSE tasks (+) SetToBag({StartedTask(api, FALSE)})
    /\ UNCHANGED << api, _accounts, _devices, _is_retrying_auth, data,
                    last_update_success, cleaned,
                    seen, hass >>

\* The remote call of the mutation returned and async_request_refresh is
\* awaited.  The host's request either runs _async_update_data at once
\* (the mutation then waits for it) ...
MutRequestImmediate ==
    /\ mut.pc = "remote"
    /\ RefreshRequests(TRUE) = 1
    /\ InFlight < MaxInFlight
    /\ tasks' = tasks (+) SetToBag({StartedTask(api, TRUE)})
    /\ mut' = [mut EXCEPT !.pc = "refresh_wait"]
    /\ cleaned' = Resumed(cleaned)
    /\ ret' = "none"
    /\ UNCHANGED << api, _accounts, _devices, _is_retrying_auth, data,
                    last_update_success,
                    seen, hass >>

\* ... or is coalesced with another request and returns without having
\* run one (the refresh happens later, as a RefreshStart).
MutRequestDeferred ==
    /\ mut.pc = "remote"
    /\ RefreshRequests(TRUE) = 1
    /\ mut' = [mut EXCEPT !.pc = "refresh_ready"]
    /\ ret' = "none"
    /\ UNCHANGED << api, _accounts, _devices, _is_retrying_auth, data,
                    last_update_success, tasks, cleaned,
                    seen, hass >>

\* The mutation coroutine returns to its caller: after the awaited
\* request, or at once when no request is made.
MutReturn ==
    /\ \/ mut.pc = "refresh_ready"
       \/ mut.pc = "remote" /\ RefreshRequests(TRUE) = 0
    /\ mut' = IdleMut
    /\ ret' = "mutation_ok"
    /\ UNCHANGED << api, _accounts, _devices, _is_retrying_auth, data,
                    last_update_success, tasks, cleaned,
                    seen, hass >>

\* ------------------------------------------------------------------ readers
\* sensor.py:137-141 (and 185-189, 251-255, 307-311; switch.py:85-89):
\* _get_account_data of an entity of account_id
GetAccountData(d, account_id) ==
    IF d.isNone THEN None
    ELSE IF account_id \in DOMAIN d.accounts
         THEN Some(d.accounts[account_id])
         ELSE None

\* coordinator.py:271-281, on the OS names the remote devices carry
GetPlatformFromOs(os_name) ==
    CASE os_name = "Windows 11" -> "WINDOWS"
      [] os_name = "Xbox" -> "XBOX"
      [] os_name = "Android" -> "MOBILE"
      [] OTHER -> "None"

\* coordinator.py:257-269
GetPlatformsForAccount(d, account_id) ==
    IF d.isNone THEN {}
    ELSE {GetPlatformFromOs(d.devices[k].os_name) :
             k \in {x \in DOMAIN d.devices :
                       d.devices[x].account_id = account_id}} \ {"None"}

AvailableUnlessRetrying(account_id) ==
    /\ last_update_success
    /\ ~_is_retrying_auth
    /\ ~GetAccountData(data, account_id).isNone

\* switch.py:197-200: CoordinatorEntity.available is the coordinator's
\* last_update_success; the switch adds that its account is in the snapshot.
Available(account_id) ==
    /\ last_update_success
    /\ ~GetAccountData(data, account_id).isNone

OverrideTargets == {"WINDOWS", "XBOX", "MOBILE"}

PlatformDevicesAnyAccount(d, account_id, platform) ==
    IF d.isNone THEN {}
    ELSE {d.devices[k] :
             k \in {x \in DOMAIN d.devices :
                       GetPlatformFromOs(d.devices[x].os_name) = platform}}

\* switch.py:91-105: the device dictionaries of the snapshot that belong to
\* the account and whose OS maps to the platform of the switch.
PlatformDevices(d, account_id, platform) ==
    IF d.isNone THEN {}
    ELSE {d.devices[k] :
             k \in {x \in DOMAIN d.devices :
                       /\ d.devices[x].account_id = account_id
                       /\ GetPlatformFromOs(d.devices[x].os_name) = platform}}

\* switch.py:107-119
IsOn(d, account_id, platform) ==
    LET devices == PlatformDevices(d, account_id, platform)
    IN  IF devices = {} THEN FALSE
        ELSE \E device \in devices : ~device.blocked

ReaderFetchesWhenEmpty(d) == IF d.isNone THEN 1 ELSE 0

\* The readers only look at self.data: the number of refreshes a read
\* starts.
ReaderFetches(d) == 0

\* An entity of account_id reads the cache: its account data and the
\* platforms of the account.
Read(account_id) ==
    /\ seen' = [account |-> GetAccountData(data, account_id),
                platforms |-> GetPlatformsForAccount(data, account_id)]
    /\ tasks' = IF ReaderFetches(data) = 0 THEN tasks
                ELSE tasks (+) SetToBag({StartedTask(api, FALSE)})
    /\ ret' = "none"
    /\ UNCHANGED << api, _accounts, _devices, _is_retrying_auth, data,
                    last_update_success, mut, cleaned, hass >>

\* ------------------------------------------------------------ specification
Next ==
    \/ RefreshStart
    \/ \E k \in BagToSet(tasks), w \in RemoteWorlds :
           SetupDone(k, SomeAccounts(w)) \/ SetupDone(k, NoneAccounts)
    \/ \E k \in BagToSet(tasks), c \in SetupFailures : SetupFail(k, c)
    \/ \E k \in BagToSet(tasks), f \in Fetches : UpdateDone(k, f[1], f[2])
    \/ Cleanup
    \/ \E c \in MutationCalls : MutStart(c[1], c[2])
    \/ MutRemoteFail
    \/ MutRequestImmediate
    \/ MutRequestDeferred
    \/ MutReturn

Spec == Init /\ [][Next]_vars

\* ------------------------------------------------------- polling and readers
\* The polling timer of the host fires (update_interval, coordinator.py:
\* 35-40); the host arms it again when the refresh it ran has finished.
Poll ==
    /\ InFlight = 0
    /\ RefreshStart

\* A family whose two accounts use the same device: the cloud lists the
\* device, with its one device_id, under each of them.
World5 == << Acc("a1", 0, 0, << Dev("d1", "Windows 11", 0, FALSE) >>, FALSE),
             Acc("a2", 0, 0, << Dev("d1", "Windows 11", 0, FALSE) >>, FALSE) >>

\* The collections the polled coordinator can read.
PolledWorlds == RemoteWorlds \cup {World5}

PolledFetches == Fetches \cup ({"ok"} \X PolledWorlds)

PollNext ==
    \/ Poll
    \/ \E k \in BagToSet(tasks), w \in PolledWorlds :
           SetupDone(k, SomeAccounts(w)) \/ SetupDone(k, NoneAccounts)
    \/ \E k \in BagToSet(tasks), c \in SetupFailures : SetupFail(k, c)
    \/ \E k \in BagToSet(tasks), f \in PolledFetches :
           UpdateDone(k, f[1], f[2])
    \/ \E a \in AccountIds : Read(a)

\* A coordinator that is polled and read, the timer firing again after
\* every refresh.
PollSpec == Init /\ [][PollNext]_vars /\ WF_vars(Poll)

\* -------------------------------------------------- config entries, services
\* The coordinator variables, which the entry functions do not touch.
coordinatorVars ==
    << api, _accounts, _devices, _is_retrying_auth, data,
       last_update_success, tasks, mut, cleaned, ret, seen >>

\* __init__.py:60: a new coordinator, nothing published, not in
\* hass.data, not cleaned up.
NewCoordinator == [accounts |-> {}, published |-> FALSE,
                   stored |-> FALSE, cleaned |-> FALSE]

\* The coordinators hass.data[DOMAIN] holds, in the order of the dict.
Registered(reg) == {reg[i].coordinator : i \in 1..Len(reg)}

\* entry_id in hass.data[DOMAIN]
InRegistry(reg, e) == \E i \in 1..Len(reg) : reg[i].entry = e

\* __init__.py:70-71: hass.data[DOMAIN][entry_id] = coordinator; a key the
\* dict has keeps its place, a new key goes last.
Store(reg, e, c) ==
    IF InRegistry(reg, e)
    THEN [i \in 1..Len(reg) |->
             IF reg[i].entry = e THEN [entry |-> e, coordinator |-> c]
             ELSE reg[i]]
    ELSE Append(reg, [entry |-> e, coordinator |-> c])

\* __init__.py:210: hass.data[DOMAIN].pop(entry_id)
Pop(reg, e) == SelectSeq(reg, LAMBDA item : item.entry # e)

\* async_config_entry_first_refresh of the host: it returns when the
\* refresh published a snapshot, lets the ConfigEntryAuthFailed of the
\* refresh through, and raises ConfigEntryNotReady for any other failure.
FirstRefreshOutcomes ==
    {"snapshot", "ConfigEntryAuthFailed", "ConfigEntryNotReady"}

\* __init__.py:63-67: what async_setup_entry raises when the first refresh
\* raised: ConfigEntryNotReady, whatever the exception.
SetupRaises(outcome) == "ConfigEntryNotReady"

StoredBeforeRefresh(reg, e, c, outcome) == Store(reg, e, c)

\* __init__.py:62-71: hass.data[DOMAIN] after the first refresh; line 71
\* is reached only when the refresh did not raise.
StoredAfterRefresh(reg, e, c, outcome) ==
    IF outcome = "snapshot" THEN Store(reg, e, c) ELSE reg

\* hass.services.has_service(DOMAIN, s)
HasService(h, s) == h.services[s] > 0

\* __init__.py:169-200: each service is registered unless it is already.
SetupServices(h) ==
    [s \in Services |->
        IF HasService(h, s) THEN h.services[s] ELSE h.services[s] + 1]

LastEntryAlways(reg) == TRUE

\* __init__.py:214: `if not hass.data[DOMAIN]`
LastEntry(reg) == reg = << >>

\* __init__.py:57-64: the host calls async_setup_entry for an entry that
\* is not loaded; the coordinator is made and its first refresh awaited.
SetupEntry(e) ==
    /\ hass.entries[e].pc = "not_loaded"
    /\ Len(hass.coordinators) < MaxCoordinators
    /\ hass' = [hass EXCEPT
                  !.coordinators = Append(@, NewCoordinator),
                  !.entries[e] = [pc |-> "first_refresh",
                                  reloading |-> FALSE,
                                  coordinator |-> Len(hass.coordinators) + 1],
                  !.done = NoCall,
                  !.called = NoServiceCall]
    /\ UNCHANGED coordinatorVars

\* __init__.py:62-74: the first refresh finished.  On success the
\* coordinator is stored in hass.data[DOMAIN] and the platforms are
\* forwarded; otherwise async_setup_entry raises.
FirstRefreshDone(e, outcome, accounts) ==
    /\ hass.entries[e].pc = "first_refresh"
    /\ LET c == hass.entries[e].coordinator
       IN  IF outcome = "snapshot"
           THEN hass' = [hass EXCEPT
                    !.coordinators[c] = [@ EXCEPT !.accounts = accounts,
                                                  !.published = TRUE,
                                                  !.stored = TRUE],
                    !.registry = StoredAfterRefresh(@, e, c, outcome),
                    !.entries[e].pc = "forwarding",
                    !.done = NoCall,
                    !.called = NoServiceCall]
           ELSE hass' = [hass EXCEPT
                    !.registry = StoredAfterRefresh(@, e, c, outcome),
                    !.entries[e] = IF InRegistry(hass.registry, e)
                                   THEN [IdleEntry EXCEPT !.pc = "loaded"]
                                   ELSE IdleEntry,
                    !.done = [op |-> "setup", entry |-> e,
                              result |-> SetupRaises(outcome)],
                    !.called = NoServiceCall]
    /\ UNCHANGED coordinatorVars

\* __init__.py:74-79: async_forward_entry_setups returned; the services
\* are registered and async_setup_entry returns True.
ForwardDone(e) ==
    /\ hass.entries[e].pc = "forwarding"
    /\ hass' = [hass EXCEPT
                  !.services = SetupServices(hass),
                  !.entries[e] = [IdleEntry EXCEPT !.pc = "loaded"],
                  !.done = [op |-> "setup", entry |-> e, result |-> "True"],
                  !.called = NoServiceCall]
    /\ UNCHANGED coordinatorVars

\* __init__.py:203-206 (also 225, inside async_reload_entry): the host
\* calls async_unload_entry on a loaded entry; async_unload_platforms is
\* awaited.
UnloadBegin(e, reloading) ==
    /\ hass.entries[e].pc = "loaded"
    /\ hass' = [hass EXCEPT
                  !.entries[e] = [pc |-> "unloading",
                                  reloading |-> reloading,
                                  coordinator |-> 0],
                  !.done = NoCall,
                  !.called = NoServiceCall]
    /\ UNCHANGED coordinatorVars

\* __init__.py:210-218: the coordinator of the entry is popped and cleaned
\* up, and the services are removed when none is left.
PoppedAndCleaned(h, e) ==
    LET reg == Pop(h.registry, e)
        gone == Registered(h.registry) \ Registered(reg)
    IN  [h EXCEPT
            !.registry = reg,
            !.coordinators =
                [c \in DOMAIN h.coordinators |->
                    IF c \in gone
                    THEN [h.coordinators[c] EXCEPT !.cleaned = TRUE]
                    ELSE h.coordinators[c]],
            !.services = IF LastEntry(reg)
                         THEN [s \in Services |-> 0]
                         ELSE h.services]

UnloadedWhateverResult(h, e, unload_ok) == PoppedAndCleaned(h, e)

\* __init__.py:208: `if unload_ok:` guards lines 210-218 of
\* async_unload_entry.
Unloaded(h, e, unload_ok) ==
    IF unload_ok THEN PoppedAndCleaned(h, e) ELSE h

\* __init__.py:206-220: async_unload_platforms returned unload_ok, and
\* async_unload_entry returns it.
UnloadDone(e, unload_ok) ==
    /\ hass.entries[e].pc = "unloading"
    /\ ~hass.entries[e].reloading
    /\ hass' = [Unloaded(hass, e, unload_ok) EXCEPT
                  !.entries[e] = IF unload_ok THEN IdleEntry
                                 ELSE [IdleEntry EXCEPT !.pc = "loaded"],
                  !.done = [op |-> "unload", entry |-> e,
                            result |-> IF unload_ok THEN "True" ELSE "False"],
                  !.called = NoServiceCall]
    /\ UNCHANGED coordinatorVars

\* __init__.py:223-226: inside async_reload_entry the result of
\* async_unload_entry is dropped and async_setup_entry is called next
\* (57-64: a coordinator is made and its first refresh awaited).
ReloadUnloadDone(e, unload_ok) ==
    /\ hass.entries[e].pc = "unloading"
    /\ hass.entries[e].reloading
    /\ Len(hass.coordinators) < MaxCoordinators
    /\ LET h == Unloaded(hass, e, unload_ok)
       IN  hass' = [h EXCEPT
                  !.coordinators = Append(@, NewCoordinator),
                  !.entries[e] = [pc |-> "first_refresh",
                                  reloading |-> TRUE,
                                  coordinator |-> Len(h.coordinators) + 1],
                  !.done = [op |-> "unload", entry |-> e,
                            result |-> IF unload_ok THEN "True" ELSE "False"],
                  !.called = NoServiceCall]
    /\ UNCHANGED coordinatorVars

\* A later refresh of a coordinator that is in hass.data[DOMAIN] publishes
\* a snapshot with these accounts.
EntryRefresh(c, accounts) ==
    /\ c \in Registered(hass.registry)
    /\ hass.coordinators[c].accounts # accounts
    /\ hass' = [hass EXCEPT
                  !.coordinators[c].accounts = accounts,
                  !.done = NoCall,
                  !.called = NoServiceCall]
    /\ UNCHANGED coordinatorVars

RECURSIVE RouteAll(_, _, _, _)
RouteAll(reg, coordinators, i, account_id) ==
    IF i > Len(reg) THEN << >>
    ELSE LET c == reg[i].coordinator
         IN  (IF coordinators[c].published
                 /\ account_id \in coordinators[c].accounts
              THEN << c >> ELSE << >>)
             \o RouteAll(reg, coordinators, i + 1, account_id)

\* __init__.py:103-110 and 129-136: the loop over hass.data[DOMAIN] from
\* its i-th item; the coordinators the mutation is awaited on.
RECURSIVE Route(_, _, _, _)
Route(reg, coordinators, i, account_id) ==
    IF i > Len(reg) THEN << >>
    ELSE LET c == reg[i].coordinator
         IN  IF coordinators[c].published
                /\ account_id \in coordinators[c].accounts
             THEN << c >>
             ELSE Route(reg, coordinators, i + 1, account_id)

\* __init__.py:85-136: a block_device or unblock_device service call.
ServiceCall(service, account_id) ==
    /\ service \in {"block_device", "unblock_device"}
    /\ HasService(hass, service)
    /\ hass' = [hass EXCEPT
                  !.done = NoCall,
                  !.called = [service |-> service,
                              account_id |-> account_id,
                              targets |-> Route(hass.registry,
                                                hass.coordinators, 1,
                                                account_id)]]
    /\ UNCHANGED coordinatorVars

EntryNext ==
    \/ \E e \in Entries : SetupEntry(e)
    \/ \E e \in Entries, o \in FirstRefreshOutcomes, s \in AccountSets :
           FirstRefreshDone(e, o, s)
    \/ \E e \in Entries : ForwardDone(e)
    \/ \E e \in Entries, r \in BOOLEAN : UnloadBegin(e, r)
    \/ \E e \in Entries, ok \in BOOLEAN : UnloadDone(e, ok)
    \/ \E e \in Entries, ok \in BOOLEAN : ReloadUnloadDone(e, ok)
    \/ \E c \in 1..MaxCoordinators, s \in AccountSets : EntryRefresh(c, s)
    \/ \E sv \in Services, a \in AccountIds : ServiceCall(sv, a)

\* The config entries of the integration set up, unloaded and reloaded by
\* the host, and the services called.
EntrySpec == Init /\ [][EntryNext]_vars


\* ------------------------------------------------------------------ helpers
\* The api.update() calls in flight.
UpdatesInFlight ==
    BagCardinality([k \in Running("update") |-> tasks[k]])

\* The last completed refresh succeeded (the host has published its
\* snapshot and set last_update_success).
Ready == last_update_success /\ ~data.isNone

\* A refresh completes in this step with an authentication HttpException.
AuthFailureCompletes ==
    \E k \in BagToSet(tasks) : UpdateDone(k, "http_auth", << >>)

\* A refresh completes in this step.
RefreshCompletes ==
    \E k \in BagToSet(tasks) :
        \/ \E c \in SetupFailures : SetupFail(k, c)
        \/ \E f \in Fetches : UpdateDone(k, f[1], f[2])

\* A refresh completes in this step: an invocation of _async_update_data
\* leaves the in-flight ones (only its return or its exception does that).
RefreshReturns == BagCardinality(tasks') < BagCardinality(tasks)

\* ------------------------------------------------------------------- claims
\* C1: single-flight refresh - at no moment is more than one api.update()
\* fetch in flight, whoever requested the refreshes.
C1_SingleFlight == UpdatesInFlight <= 1

\* C2: auth escalation - when the last completed refresh succeeded, a
\* refresh failing with an authentication HttpException raises
\* ConfigEntryAuthFailed; when the refresh completed just before was itself
\* an authentication failure, it raises UpdateFailed.
C2_AuthEscalation ==
    [][AuthFailureCompletes =>
          /\ Ready => ret' = "ConfigEntryAuthFailed(ERROR_TOKEN_EXPIRED)"
          /\ ret \in {"ConfigEntryAuthFailed(ERROR_TOKEN_EXPIRED)",
                      "UpdateFailed(Authentication failed)"}
                => ret' = "UpdateFailed(Authentication failed)"]_vars

\* C3: every successful refresh clears the auth-retry flag - right after
\* _async_update_data returned a snapshot, _is_retrying_auth is false.
C3_SuccessClearsFlag == ret = "snapshot" => ~_is_retrying_auth

\* C4: re-escalation after recovery - on a coordinator that had an
\* authentication failure (the only thing that sets _is_retrying_auth) and
\* whose last completed refresh succeeded, the next authentication failure
\* is a first occurrence again and raises ConfigEntryAuthFailed.
C4_ReEscalation ==
    [][(Ready /\ _is_retrying_auth /\ AuthFailureCompletes)
          => ret' \in AuthRequired]_vars

\* C5: a failed refresh leaves the served snapshot as it was; self.data
\* changes only in a step in which a refresh returns a snapshot.
C5_FailedRefreshKeepsSnapshot ==
    [][/\ ret' \in AuthRequired \cup UpdateFailures => data' = data
       /\ data' # data => ret' = "snapshot"]_vars

\* C5 witness: a refresh has just failed on a coordinator that serves a
\* published snapshot with accounts in it.
C5_Witness ==
    /\ ret \in AuthRequired \cup UpdateFailures
    /\ ~data.isNone
    /\ data.accounts # EmptyMap

\* C6: after async_cleanup the coordinator is terminal - no refresh
\* started later gets as far as a call to the remote client (neither
\* FamilySafety.create nor api.update()).
C6_ShutdownTerminal ==
    [][cleaned # "no" => BagCardinality(tasks') <= BagCardinality(tasks)]_vars

\* C7: the result of a refresh that was in flight when async_cleanup ran
\* is discarded - when it completes it publishes no snapshot and puts
\* nothing in the handle tables.
C7_ShutdownDiscardsInFlight ==
    [][(cleaned = "yes" /\ RefreshCompletes) =>
          /\ ret' # "snapshot"
          /\ data' = data
          /\ _accounts' = _accounts
          /\ _devices' = _devices]_vars

\* C8: a block or unblock naming an account id that is not in _accounts
\* raises ValueError without awaiting a remote call and without requesting
\* a refresh.
C8_NotFound ==
    [][\A c \in {"block", "unblock"} \X AccountIds :
          (c[2] \notin DOMAIN _accounts /\ MutStart(c[1], c[2]))
              => /\ ret' = "ValueError"
                 /\ mut'.pc = "idle"
                 /\ tasks' = tasks]_vars

\* C8 witness: a block/unblock has just been rejected on a coordinator
\* that has a client and handles for other accounts.
C8_Witness ==
    /\ ret = "ValueError"
    /\ ~api.isNone
    /\ _accounts # EmptyMap
    /\ mut.pc = "idle"

C10_HandleTableRebuilt ==
    ret = "snapshot" =>
        /\ DOMAIN _accounts = DOMAIN data.accounts
        /\ DOMAIN _devices = DOMAIN data.devices

\* C11: referential integrity - in the snapshot served to readers, the
\* account_id of every device record is a key of the accounts map.
C11_ReferentialIntegrity ==
    ~data.isNone =>
        \A d \in DOMAIN data.devices :
            data.devices[d].account_id \in DOMAIN data.accounts

\* C11 witness: a snapshot with device records has been published.
C11_Witness == ~data.isNone /\ data.devices # EmptyMap

\* The ways api.update() ends with a null collection, as the claim lists
\* them: it returns with accounts = None, or raises the
\* "'NoneType' object is not iterable" TypeError.
NullOutcomes == {"none", "typeerr_none_keep", "typeerr_none_null"}

EmptySnapshot ==
    [isNone |-> FALSE, accounts |-> EmptyMap, devices |-> EmptyMap]

\* C12 (as claimed): null-collection tolerance - a refresh whose
\* api.update(), on the client self.api names, ends in one of the
\* NullOutcomes returns a snapshot with empty accounts and devices maps.
C12_NullCollectionTolerance ==
    [][\A k \in BagToSet(tasks), out \in NullOutcomes :
          (k.onCurrent /\ UpdateDone(k, out, << >>))
              => ret' = "snapshot" /\ data' = EmptySnapshot]_vars

\* C12 (amended): when api.update() has ended in one of the NullOutcomes
\* and self.api.accounts is None, the refresh replaces it by an empty
\* list and returns a snapshot with empty accounts and devices maps.
C12_NoneAccountsEmptySnapshot ==
    [][\A k \in BagToSet(tasks), out \in NullOutcomes :
          (/\ RefreshReturns
           /\ ~ApiAfterUpdate(k, out, << >>).isNone
           /\ ApiAfterUpdate(k, out, << >>).accounts.isNone
           /\ UpdateDone(k, out, << >>))
              => /\ ret' = "snapshot"
                 /\ data' = EmptySnapshot
                 /\ api' = Client(SomeAccounts(<< >>))]_vars

\* C12 witness: a refresh has just returned the empty snapshot of a
\* collection that was None.
C12_Witness ==
    /\ ret = "snapshot"
    /\ data = EmptySnapshot
    /\ api = Client(SomeAccounts(<< >>))

\* C13: repeated authentication failures do not re-escalate - when the
\* refresh completed just before raised ConfigEntryAuthFailed, the next
\* refresh to complete (no successful refresh lies between the two) does
\* not raise ConfigEntryAuthFailed again.
C13_NoReEscalation ==
    [][(ret \in AuthRequired /\ RefreshCompletes)
          => ret' \notin AuthRequired]_vars

\* The device ids of a remote account, in the order of its collection.
DeviceIdList(account) ==
    [i \in 1..Len(account.devices) |-> account.devices[i].device_id]

\* C14: publication is atomic and copy-on-write - self.data changes only
\* in the step in which a refresh returns, and what is served from then
\* on is the complete snapshot of the collection that refresh read:
\* every account and device of it, nothing of the snapshot served before,
\* which no refresh, mutation or cleanup step alters.
C14_AtomicPublication ==
    [][data' # data =>
          /\ ret' = "snapshot"
          /\ ~data'.isNone
          /\ ~api'.isNone
          /\ ~api'.accounts.isNone
          /\ LET accs == api'.accounts.list
             IN  /\ DOMAIN data'.accounts =
                        {accs[i].user_id : i \in 1..Len(accs)}
                 /\ DOMAIN data'.devices =
                        UNION {DevIds(accs[i].devices) : i \in 1..Len(accs)}
                 /\ \A i \in 1..Len(accs) :
                        data'.accounts[accs[i].user_id].devices
                            = DeviceIdList(accs[i])]_vars

\* C14 witness: a snapshot has just been published that lacks an
\* account an earlier refresh had read (its handle is still there).
C14_Witness ==
    /\ ret = "snapshot"
    /\ DOMAIN data.accounts = {"a2"}
    /\ "a1" \in DOMAIN _accounts

\* C15: async_cleanup releases the client and clears the cached state -
\* when it returns, api is None, both handle tables are empty and the
\* snapshot served to readers is None or empty.
C15_CleanupClearsState ==
    [][Cleanup =>
          /\ api'.isNone
          /\ _accounts' = EmptyMap
          /\ _devices' = EmptyMap
          /\ (data'.isNone \/ data' = EmptySnapshot)]_vars

\* C16: async_cleanup is idempotent - called again right after it
\* returned, it returns again without an error and changes nothing.
C16_CleanupIdempotent ==
    [][(ret = "cleanup_done" /\ Cleanup) =>
          /\ ret' = "cleanup_done"
          /\ UNCHANGED << api, _accounts, _devices, _is_retrying_auth, data,
                          last_update_success, tasks, mut, cleaned,
                          seen >>]_vars

\* C16 witness: async_cleanup has just returned on a coordinator that
\* had a client, handles and a published snapshot.
C16_Witness ==
    /\ ret = "cleanup_done"
    /\ api.isNone
    /\ _accounts = EmptyMap
    /\ data.accounts # EmptyMap

\* A refresh run by a mutation's async_request_refresh is in flight.
ForcedInFlight == \E k \in BagToSet(tasks) : k.forced

\* C17: a mutation whose remote call fails raises that error to its
\* caller and starts no refresh; the refresh of a mutation starts only
\* out of the await of a remote call that returned.
C17_RemoteFailurePropagates ==
    [][/\ MutRemoteFail =>
             /\ ret' = "RemoteError"
             /\ mut'.pc = "idle"
             /\ tasks' = tasks
       /\ (ForcedInFlight' /\ ~ForcedInFlight) =>
             /\ mut.pc = "remote"
             /\ mut'.pc = "refresh_wait"
             /\ ret' = "none"]_vars

\* C17 witness: the remote call of a mutation has just failed on a
\* coordinator with a client, and no refresh is in flight.
C17_Witness ==
    /\ ret = "RemoteError"
    /\ mut.pc = "idle"
    /\ ~api.isNone
    /\ tasks = EmptyBag

\* C18: a communication failure that is not an authentication failure (an
\* HttpException without 401/authentication in its message), raised while
\* the client is created or updated, surfaces as UpdateFailed and never as
\* ConfigEntryAuthFailed, and leaves the auth-retry flag and the published
\* snapshot as they were.
C18_TransientErrorIsUpdateFailed ==
    [][\A k \in BagToSet(tasks) :
          (SetupFail(k, "http_other") \/ UpdateDone(k, "http_other", << >>))
          => /\ ret' \in UpdateFailures
             /\ ret' \notin AuthRequired
             /\ _is_retrying_auth' = _is_retrying_auth
             /\ data' = data]_vars

\* C19: a read of the cache starts no refresh and makes no remote call (the
\* tasks, the client and the snapshot are as before), it returns what the
\* last published snapshot holds for the account, and it returns None and
\* no platform while no snapshot has been published; the snapshot stops
\* being None only when a refresh publishes one.
C19_ReadNeverFetches ==
    [][/\ \A a \in AccountIds :
            Read(a)
            => /\ tasks' = tasks /\ api' = api /\ data' = data
               /\ seen'.account =
                     (IF ~data.isNone /\ a \in DOMAIN data.accounts
                      THEN Some(data.accounts[a]) ELSE None)
               /\ seen'.platforms \subseteq {"WINDOWS", "XBOX", "MOBILE"}
               /\ data.isNone
                  => seen'.account = None /\ seen'.platforms = {}
       /\ (data.isNone /\ ~data'.isNone) => ret' = "snapshot"]_vars

\* An entity has read its account from a published snapshot, with the
\* platforms of its devices, and no refresh is in flight.
C19_Witness ==
    /\ ~data.isNone
    /\ ~seen.account.isNone
    /\ seen.platforms # {}
    /\ InFlight = 0

\* C20: every usage value of a published snapshot (an account's today and
\* average usage, a device's today_time_used) is the millisecond value the
\* fetch read for that account or device, floor-divided by 60000.
C20_UsageStoredInMinutes ==
    [][\A k \in BagToSet(tasks), w \in RemoteWorlds :
          (UpdateDone(k, "ok", w) /\ ret' = "snapshot")
          => /\ \A id \in DOMAIN data'.accounts :
                   \E i \in 1..Len(w) :
                       /\ w[i].user_id = id
                       /\ data'.accounts[id].today_screentime_usage
                             = w[i].today_screentime_usage \div 60000
                       /\ data'.accounts[id].average_screentime_usage
                             = w[i].average_screentime_usage \div 60000
             /\ \A d \in DOMAIN data'.devices :
                   \E i \in 1..Len(w) :
                       \E j \in 1..Len(w[i].devices) :
                           /\ w[i].devices[j].device_id = d
                           /\ data'.devices[d].today_time_used
                                 = w[i].devices[j].today_time_used
                                     \div 60000]_vars

\* The last refresh succeeded, and the collection it read was w.
LastRefreshRead(w) ==
    /\ Ready
    /\ ~api.isNone
    /\ api.accounts = SomeAccounts(w)

\* C21: refresh is idempotent - when the last refresh succeeded on the
\* collection w, and the next refresh reads the same w and succeeds, it
\* publishes an equal snapshot and leaves both handle tables with the key
\* sets they had.
C21_RefreshIdempotent ==
    [][\A k \in BagToSet(tasks), w \in PolledWorlds :
          (/\ LastRefreshRead(w)
           /\ UpdateDone(k, "ok", w)
           /\ ret' = "snapshot")
          => /\ data' = data
             /\ DOMAIN _accounts' = DOMAIN _accounts
             /\ DOMAIN _devices' = DOMAIN _devices]_vars

\* C21 witness: a refresh has just succeeded and published the very
\* account data an entity had read from the snapshot before it.
C21_Witness ==
    /\ ret = "snapshot"
    /\ last_update_success
    /\ \E a \in DOMAIN data.accounts :
           /\ seen.account = Some(data.accounts[a])
           /\ data.accounts[a].devices # << >>
           /\ seen.platforms # {}

\* C22: absent fields are filled with defaults - a refresh whose fetch
\* read a collection in which an account's device collection is None does
\* not fail because of it: it publishes a snapshot, and the account's
\* devices list in it is the empty list.
C22_DefaultFilling ==
    [][\A k \in BagToSet(tasks), w \in RemoteWorlds :
          (/\ UpdateDone(k, "ok", w)
           /\ ~api'.isNone
           /\ api'.accounts = SomeAccounts(w))
          => /\ ret' = "snapshot"
             /\ \A i \in 1..Len(w) :
                    w[i].devices_is_none
                    => /\ w[i].user_id \in DOMAIN data'.accounts
                       /\ data'.accounts[w[i].user_id].devices = << >>]_vars

\* C23: device ordering is stable - in the snapshot a refresh publishes,
\* the devices list of every account has one entry per device of the
\* remote account's collection, the j-th entry being the id of the j-th
\* device.
C23_StableDeviceOrdering ==
    [][ret' = "snapshot" =>
          \A i \in 1..Len(api'.accounts.list) :
              LET account == api'.accounts.list[i]
                  stored == data'.accounts[account.user_id].devices
              IN  /\ Len(stored) = Len(account.devices)
                  /\ \A j \in 1..Len(stored) :
                         stored[j] = account.devices[j].device_id]_vars

\* C23 witness: a snapshot has just been published in which an account
\* lists two different devices.
C23_Witness ==
    /\ ret = "snapshot"
    /\ \E a \in DOMAIN data.accounts :
           /\ Len(data.accounts[a].devices) = 2
           /\ data.accounts[a].devices[1] # data.accounts[a].devices[2]

\* C26: entities recover after failure - when a refresh fails, the switch
\* of every account is unavailable; when a refresh succeeds, the switch of
\* an account is available if the published snapshot contains the account
\* and unavailable if it does not, whatever failed before.
C26_EntitiesRecover ==
    [][RefreshReturns =>
          \A a \in AccountIds :
              Available(a)' = (/\ ret' = "snapshot"
                               /\ a \in DOMAIN data'.accounts)]_vars

\* C26 witness: after an authentication failure (the flag is set) a
\* refresh has just succeeded and the switch of a1 is available.
C26_Witness ==
    /\ ret = "snapshot"
    /\ _is_retrying_auth
    /\ Available("a1")

\* C27: a platform switch is ON exactly when the snapshot holds a device of
\* its account, of its platform, that is not blocked.
C27_ActivePlatform ==
    \A a \in AccountIds, p \in OverrideTargets :
        IsOn(data, a, p) <=>
            /\ ~data.isNone
            /\ \E k \in DOMAIN data.devices :
                   /\ data.devices[k].account_id = a
                   /\ GetPlatformFromOs(data.devices[k].os_name) = p
                   /\ ~data.devices[k].blocked

\* C27 witness: in one snapshot a switch of a1 is ON (an unblocked
\* Android device) and another is OFF because its only device is blocked.
C27_Witness ==
    /\ IsOn(data, "a1", "MOBILE")
    /\ ~IsOn(data, "a1", "WINDOWS")
    /\ PlatformDevices(data, "a1", "WINDOWS") # {}

\* C28: error classification in a refresh - a failure is treated as an
\* authentication failure (auth-required, or "Authentication failed" once
\* the flag is set) exactly when it is an HttpException whose message has
\* "401" or "authentication"; every other exception of the fetch, made by
\* FamilySafety.create or by api.update(), surfaces as UpdateFailed, never
\* as auth-required, and leaves the auth-retry flag as it was.
C28_ErrorClassification ==
    [][\A k \in BagToSet(tasks) :
          /\ (SetupFail(k, "http_auth") \/ UpdateDone(k, "http_auth", << >>))
             => ret' \in AuthRequired \cup
                           {"UpdateFailed(Authentication failed)"}
          /\ \A c \in UpdateOutcomes \ {"http_auth"} :
                 (\/ SetupFail(k, c)
                  \/ \E w \in RemoteWorlds \cup {<< >>} :
                         /\ << c, w >> \in Fetches
                         /\ UpdateDone(k, c, w))
                 => /\ ret' \in UpdateFailures \cup {"snapshot"}
                    /\ ret' # "UpdateFailed(Authentication failed)"
                    /\ _is_retrying_auth' = _is_retrying_auth]_vars

\* C24: single owner per entry - hass.data[DOMAIN] holds exactly one
\* coordinator for every loaded entry, and every coordinator that was put
\* into hass.data[DOMAIN] and is no longer in it has been cleaned up.
C24_SingleOwner ==
    /\ \A e \in Entries :
           hass.entries[e].pc = "loaded"
           => Cardinality({i \in 1..Len(hass.registry) :
                              hass.registry[i].entry = e}) = 1
    /\ \A c \in DOMAIN hass.coordinators :
           (/\ hass.coordinators[c].stored
            /\ c \notin Registered(hass.registry))
           => hass.coordinators[c].cleaned

\* C25: an authentication failure of the first refresh leaves
\* async_setup_entry as the auth-required signal, ConfigEntryAuthFailed.
C25_InitialAuthFailureSignalled ==
    [][\A e \in Entries, s \in AccountSets :
          FirstRefreshDone(e, "ConfigEntryAuthFailed", s)
          => hass'.done.result = "ConfigEntryAuthFailed"]_vars

\* C29: a block_device or unblock_device call awaits the mutation on at
\* most one coordinator, the first in hass.data[DOMAIN] whose published
\* snapshot has the account id, and on none when no snapshot has it; the
\* call changes nothing else.
C29_ServiceRouting ==
    [][\A sv \in Services, a \in AccountIds :
          ServiceCall(sv, a)
          => LET reg == hass.registry
                 has(i) == /\ hass.coordinators[reg[i].coordinator].published
                           /\ a \in hass.coordinators[reg[i].coordinator]
                                       .accounts
                 hits == {i \in 1..Len(reg) : has(i)}
             IN  /\ Len(hass'.called.targets) <= 1
                 /\ hits = {} => hass'.called.targets = << >>
                 /\ hits # {} =>
                       \E i \in hits :
                           /\ \A j \in hits : i <= j
                           /\ hass'.called.targets = << reg[i].coordinator >>
                 /\ hass'.registry = hass.registry
                 /\ hass'.coordinators = hass.coordinators]_vars

\* C29 witness: two coordinators in hass.data[DOMAIN] have the account of
\* the call, and the mutation went to the first of them.
C29_Witness ==
    /\ Len(hass.registry) = 2
    /\ hass.called.account_id = "a2"
    /\ \A i \in 1..2 :
           "a2" \in hass.coordinators[hass.registry[i].coordinator].accounts
    /\ hass.called.targets = << hass.registry[1].coordinator >>

\* The four services are registered.
ServicesRegistered == \A s \in Services : HasService(hass, s)

\* C30: no service is ever registered twice, the four are registered or
\* removed together, they are registered whenever a setup or an unload has
\* just returned with hass.data[DOMAIN] non-empty and removed whenever an
\* unload has just returned with it empty, and they are removed only by
\* the unload that empties hass.data[DOMAIN].
C30_ServiceLifecycle ==
    /\ \A s \in Services : hass.services[s] <= 1
    /\ \A s, t \in Services : hass.services[s] = hass.services[t]
    /\ (hass.done.op \in {"setup", "unload"} /\ hass.done.result = "True")
       => (ServicesRegistered <=> hass.registry # << >>)
    /\ hass.done.op = "unload" /\ hass.done.result = "False"
       => (ServicesRegistered /\ hass.registry # << >>)
    /\ \A e \in Entries :
           hass.entries[e].pc \in {"loaded", "unloading"}
           => ServicesRegistered

\* C30 witness: one entry has just been unloaded while the other stays
\* loaded, and the services are still registered.
C30_Witness ==
    /\ hass.done.op = "unload"
    /\ hass.done.result = "True"
    /\ Len(hass.registry) = 1
    /\ ServicesRegistered

\* C33: approve and deny on a coordinator without a client raise
\* ValueError, await no remote call and request no refresh; with a client
\* they await the approve or deny call for the request id they were
\* given, and that is the only remote call of the invocation (a remote
\* call is issued only by the step that enters a mutation).
C33_ApproveDenyNeedClient ==
    [][/\ \A r \in RequestIds :
            /\ MutStart("approve", r) =>
                   /\ tasks' = tasks
                   /\ IF api.isNone
                      THEN ret' = "ValueError" /\ mut'.pc = "idle"
                      ELSE /\ mut'.pc = "remote"
                           /\ ret' = IF r = "r1"
                                     THEN "approve_pending_request(r1)"
                                     ELSE "approve_pending_request(r2)"
            /\ MutStart("deny", r) =>
                   /\ tasks' = tasks
                   /\ IF api.isNone
                      THEN ret' = "ValueError" /\ mut'.pc = "idle"
                      ELSE /\ mut'.pc = "remote"
                           /\ ret' = IF r = "r1"
                                     THEN "deny_pending_request(r1)"
                                     ELSE "deny_pending_request(r2)"
       /\ ret' \in {"override_device", "approve_pending_request(r1)",
                    "approve_pending_request(r2)",
                    "deny_pending_request(r1)", "deny_pending_request(r2)"}
          => mut.pc = "idle" /\ mut'.pc = "remote"]_vars

\* C33 witness: after a shutdown and a new setup the coordinator has a
\* client again, and a deny has just issued its remote call.
C33_Witness ==
    /\ ret = "deny_pending_request(r2)"
    /\ mut.pc = "remote"
    /\ ~api.isNone
    /\ cleaned = "resumed"

\* C31: a failed unload changes nothing - when async_unload_platforms
\* returns False, async_unload_entry returns False, and hass.data[DOMAIN],
\* every coordinator (none is cleaned up) and the registered services are
\* as they were.
C31_FailedUnloadChangesNothing ==
    [][\A e \in Entries :
          (UnloadDone(e, FALSE) \/ ReloadUnloadDone(e, FALSE))
          => /\ hass'.done = [op |-> "unload", entry |-> e,
                              result |-> "False"]
             /\ hass'.registry = hass.registry
             /\ InRegistry(hass'.registry, e)
             /\ hass'.services = hass.services
             /\ \A s \in Services : hass'.services[s] = 1
             /\ \A c \in DOMAIN hass.coordinators :
                    hass'.coordinators[c] = hass.coordinators[c]]_vars

\* C31 witness: the unload of e1 has just failed while both entries are
\* loaded; e1 is still in hass.data[DOMAIN] with its coordinator not
\* cleaned up.
C31_Witness ==
    /\ hass.done = [op |-> "unload", entry |-> "e1", result |-> "False"]
    /\ Len(hass.registry) = 2
    /\ \E i \in 1..2 :
           /\ hass.registry[i].entry = "e1"
           /\ ~hass.coordinators[hass.registry[i].coordinator].cleaned
    /\ hass.entries["e1"].pc = "loaded"

\* C32: a failed first refresh registers nothing - async_setup_entry raises
\* ConfigEntryNotReady, the coordinator it made is not put into
\* hass.data[DOMAIN], the platforms are not forwarded and the registered
\* services are as they were.
C32_FailedFirstRefreshRegistersNothing ==
    [][\A e \in Entries, o \in FirstRefreshOutcomes \ {"snapshot"},
          s \in AccountSets :
          FirstRefreshDone(e, o, s)
          => /\ hass'.done = [op |-> "setup", entry |-> e,
                              result |-> "ConfigEntryNotReady"]
             /\ hass'.registry = hass.registry
             /\ hass.entries[e].coordinator \notin Registered(hass'.registry)
             /\ ~hass'.coordinators[hass.entries[e].coordinator].stored
             /\ hass'.entries[e].pc # "forwarding"
             /\ hass'.services = hass.services]_vars

\* C32 witness: the very first setup has just failed; hass.data[DOMAIN] is
\* empty, no service is registered, and the coordinator that was made has
\* never been stored.
C32_Witness ==
    /\ hass.done.op = "setup"
    /\ hass.done.result = "ConfigEntryNotReady"
    /\ hass.registry = << >>
    /\ Len(hass.coordinators) = 1
    /\ ~hass.coordinators[1].stored
    /\ \A s \in Services : hass.services[s] = 0

\* C34: account/device cross-consistency - in the snapshot served to
\* readers, every device id in the devices list of an account a is a key
\* of the devices map whose record has account_id = a, and the id of
\* every device record is in the devices list of the account its
\* account_id names.
C34_CrossConsistency ==
    ~data.isNone =>
        /\ \A a \in DOMAIN data.accounts :
               \A j \in 1..Len(data.accounts[a].devices) :
                   LET d == data.accounts[a].devices[j]
                   IN  /\ d \in DOMAIN data.devices
                       /\ data.devices[d].account_id = a
        /\ \A d \in DOMAIN data.devices :
               LET a == data.devices[d].account_id
               IN  /\ a \in DOMAIN data.accounts
                   /\ \E j \in 1..Len(data.accounts[a].devices) :
                          data.accounts[a].devices[j] = d

\* C35: a failed refresh leaves the handle tables unchanged - when
\* _async_update_data raises, _accounts and _devices hold what they held
\* before.
C35_FailedRefreshKeepsHandles ==
    [][(RefreshReturns /\ ret' # "snapshot")
          => /\ _accounts' = _accounts
             /\ _devices' = _devices]_vars

\* C36: snapshot accounts always have handles - while the coordinator has
\* not been shut down, every account id of the snapshot served to readers
\* is a key of _accounts, and a block or unblock that names such an account
\* is not rejected with ValueError.
C36_SnapshotAccountsHaveHandles ==
    [][cleaned = "no" =>
          /\ DOMAIN data.accounts \subseteq DOMAIN _accounts
          /\ \A c \in {"block", "unblock"} \X DOMAIN data.accounts :
                 MutStart(c[1], c[2])
                 => ret' = "override_device" /\ mut'.pc = "remote"]_vars

\* C36 witness: on a coordinator that was never shut down, whose only
\* handle is that of the only account of its snapshot, a block or unblock
\* has just been admitted and awaits its remote call.
C36_Witness ==
    /\ cleaned = "no"
    /\ ret = "override_device"
    /\ mut.pc = "remote"
    /\ DOMAIN data.accounts = {"a1"}
    /\ DOMAIN _accounts = {"a1"}

====
